---- MODULE Spec2Model ----
(***************************************************************************)
(* Model of the Cisco Umbrella API client (src/src/client.ts): the shared  *)
(* bearer-token slot, getToken, requestWithRetry and the two pagination    *)
(* iterators.  Every action is one synchronous segment of an async         *)
(* function, from the point where it is resumed to its next await.         *)
(***************************************************************************)
EXTENDS Integers, Sequences, FiniteSets, TLC

\* ------------------------------------------------------------------ bounds
\* The provider's data set has at most MaxPages pages: a page numbered
\* MaxPages or more is never a full page.
MaxPages == 3
\* Cap on the number of credential exchanges (token POSTs) of one run.
MaxExchanges == 3

\* ------------------------------------------------------- program constants
RATE_LIMIT_SLEEP_TIME == 5000
MAX_RETRIES == 3
PAGE_SIZE == 100

\* ------------------------------------------------------------ environment
\* Callers sharing the one client instance.  Spec drives caller 1 only
\* (sequential use of the client).
Procs == {1, 2}

\* The Authorization slot: NoToken is the empty string '', n > 0 stands for
\* `Bearer <access token returned by the n-th credential exchange>`.
NoToken == 0

\* Body of a successful response: the number of items of the page, or
\* NoData when the body (flat) or its data field (nested) is absent.
NoData == -1
\* requestWithRetry resolved with undefined.
NoResponse == -2
ShortSizes == {0, 47}
PageBodies(pg) ==
    ShortSizes \cup {NoData} \cup (IF pg < MaxPages THEN {PAGE_SIZE} ELSE {})

\* A retry-after header: absent, or a string of decimal digits (delay-seconds).
NoHeader == [present |-> FALSE, value |-> <<>>]
Header(digits) == [present |-> TRUE, value |-> digits]
RetryAfterHeaders == {NoHeader, Header(<<0>>), Header(<<1, 2>>)}

\* The value caught by requestWithRetry: gaxios says whether it is an
\* instance of GaxiosError, status is err.response?.status (Undefined when
\* there is no response).
Undefined == 0
HttpError(s, h) == [gaxios |-> TRUE, status |-> s, retryAfter |-> h]
ErrorStatuses == {401, 403, 404, 500}
Errors ==
    {HttpError(429, h) : h \in RetryAfterHeaders}
      \cup {HttpError(s, NoHeader) : s \in ErrorStatuses}
      \cup {[gaxios |-> g, status |-> Undefined, retryAfter |-> NoHeader] :
               g \in BOOLEAN}

Kinds == {"flat", "nested", "verify"}

\* Configurations a caller may pass to getOrCreateAPIClient.
Configs == {"A", "B"}
\* The module variable `client` before the first call (undefined).
NoClient == [id |-> 0, config |-> "none"]

\* An event of a requestWithRetry invocation: e is what happened, v its
\* value (exchange number, token, status, page size, milliseconds) and h the
\* retry-after header of an error response.
Ev(e, v) == [e |-> e, v |-> v, h |-> NoHeader]
ErrEv(err) == [e |-> "error", v |-> err.status, h |-> err.retryAfter]

VARIABLES
    client,         \* the module-level `let client`
    created,        \* number of APIClient instances constructed so far
    firstConfig,    \* the config passed to the first getOrCreateAPIClient call
    handle,         \* the client each caller was last given
    Authorization,  \* this.headers.Authorization
    tokenPosts,     \* number of POST /auth/v2/token issued so far
    tokensStored,   \* number of those that succeeded and stored a token
    authFailSeen,   \* a 401 or 403 has been received so far
    pc,             \* where each caller's async call is suspended
    kind,           \* which method the caller is running
    page, done, receivedCount,   \* locals of the iterator
    idx,            \* position of the for-of loop in the page
    callbacks,      \* iteratee invocations of the current iterator call
    completed,      \* those of them whose awaited result has arrived
    requested,      \* page numbers passed to requestWithRetry, in order
    sent,           \* page number of every GET sent by the call, in order
    clean,          \* no attempt of the call has failed so far
    received,       \* what each of those invocations gave back
    retryCounter,   \* local of requestWithRetry
    sleepTime,      \* local of requestWithRetry's 429 branch
    result,         \* how the last requestWithRetry invocation ended
    log,            \* events of the current requestWithRetry invocation
    exchange        \* the credential exchange a caller is awaiting

shared == <<Authorization, tokenPosts, tokensStored, authFailSeen>>
iter == <<kind, page, done, receivedCount, idx, callbacks, completed,
          requested, received>>
hist == <<sent, clean>>
singleton == <<client, created, firstConfig, handle>>
engine == <<retryCounter, sleepTime, result, log, exchange>>
vars == <<client, created, firstConfig, handle, Authorization, tokenPosts, tokensStored, authFailSeen, pc, kind,
          page, done, receivedCount, idx, callbacks, completed, requested,
          received, sent, clean, retryCounter, sleepTime, result, log, exchange>>

NoResult == [kind |-> "none", body |-> NoResponse]

Init ==
    /\ client = NoClient
    /\ created = 0
    /\ firstConfig = "none"
    /\ handle = [p \in Procs |-> NoClient]
    /\ Authorization = NoToken
    /\ tokenPosts = 0
    /\ tokensStored = 0
    /\ authFailSeen = FALSE
    /\ pc = [p \in Procs |-> "idle"]
    /\ kind = [p \in Procs |-> "flat"]
    /\ page = [p \in Procs |-> 1]
    /\ done = [p \in Procs |-> FALSE]
    /\ receivedCount = [p \in Procs |-> 0]
    /\ idx = [p \in Procs |-> 0]
    /\ callbacks = [p \in Procs |-> 0]
    /\ completed = [p \in Procs |-> 0]
    /\ requested = [p \in Procs |-> <<>>]
    /\ received = [p \in Procs |-> <<>>]
    /\ sent = [p \in Procs |-> <<>>]
    /\ clean = [p \in Procs |-> TRUE]
    /\ retryCounter = [p \in Procs |-> 0]
    /\ sleepTime = [p \in Procs |-> 0]
    /\ result = [p \in Procs |-> NoResult]
    /\ log = [p \in Procs |-> <<>>]
    /\ exchange = [p \in Procs |-> 0]

\* ------------------------------------------------------- pure helpers
\* JavaScript truthiness of headers['retry-after']: undefined and '' are falsy.
Truthy(h) == h.present /\ Len(h.value) > 0

\* JavaScript string-to-number conversion of a string of decimal digits.
RECURSIVE ToNumber(_)
ToNumber(digits) ==
    IF digits = <<>> THEN 0
    ELSE 10 * ToNumber(SubSeq(digits, 1, Len(digits) - 1)) + digits[Len(digits)]

\* Faulty variant: the header's seconds are not converted to milliseconds.
SleepTimeForInSeconds(err) ==
    IF Truthy(err.retryAfter)
    THEN ToNumber(err.retryAfter.value)
    ELSE RATE_LIMIT_SLEEP_TIME

\* err.response?.headers['retry-after'] ? ... * 1000 : this.RATE_LIMIT_SLEEP_TIME
SleepTimeFor(err) ==
    IF Truthy(err.retryAfter)
    THEN ToNumber(err.retryAfter.value) * 1000
    ELSE RATE_LIMIT_SLEEP_TIME

\* Faulty variant: a 429 is not recognised.
IsRateLimitedNever(err) == FALSE

\* err.response?.status == 429
IsRateLimited(err) == err.status = 429

\* Faulty variant: the refresh is not limited to retryCounter == 0.
ShouldRefreshAnyCounter(err, rc) == err.status \in {401, 403}

\* (status == 401 || status == 403) && retryCounter == 0
ShouldRefresh(err, rc) == err.status \in {401, 403} /\ rc = 0

\* Faulty variant: the 403 case is missing from the switch.
createIntegrationErrorNo403(status) ==
    CASE status = 401 -> "AuthenticationError"
      [] OTHER -> "ProviderAPIError"

createIntegrationError(status) ==
    CASE status = 401 -> "AuthenticationError"
      [] status = 403 -> "AuthorizationError"
      [] OTHER -> "ProviderAPIError"

\* Faulty variant: the error is dropped and the caller resumed.
ThrowSwallowed == "resolved"

\* throw: neither requestWithRetry nor the iterators nor verifyAuthentication
\* have a handler around it, the call as a whole is rejected.
Throw == "raised"

\* The error the last two branches of the catch block throw.
Thrown(err) ==
    IF err.gaxios THEN createIntegrationError(err.status) ELSE "IntegrationError"

\* Faulty variant: the slot is not consulted, every attempt exchanges credentials.
SlotEmptyAlways(auth) == TRUE

\* Faulty variant: credentials are exchanged for the first token only.
SlotEmptyFirstOnly(auth) == auth = NoToken /\ tokenPosts = 0

\* Faulty variant: the slot is not consulted, no attempt exchanges credentials.
SlotEmptyNever(auth) == FALSE

\* if (!this.headers.Authorization)
SlotEmpty(auth) == auth = NoToken

\* Faulty variant: a token already in the slot is not overwritten.
StoreIfEmpty(auth, token) == IF auth = NoToken THEN token ELSE auth

\* this.headers.Authorization = `Bearer ${response.data.access_token}`
Store(auth, token) == token

\* Faulty variant: the rejected token is left in the slot.
InvalidateKeepsToken(auth) == auth

\* this.headers.Authorization = ''
Invalidate(auth) == NoToken

\* Faulty variant: off by one in the loop test.
LoopAgainInclusive(rc) == rc <= MAX_RETRIES

\* while (retryCounter < this.MAX_RETRIES)
LoopAgain(rc) == rc < MAX_RETRIES

\* The iterator's test of the response: response?.data && data.length > 0
\* (flat), response?.data?.data (nested, where an empty array is truthy).
HasItems(k, body) ==
    IF k = "flat" THEN body \notin {NoData, NoResponse} /\ body > 0
    ELSE body \notin {NoData, NoResponse}

\* Faulty variant: the for-of loop runs one step past the end of the page.
MoreItemsPastEnd(i, n) == i <= n

\* for (const item of response.data): after item i of n, is there a next one
MoreItems(i, n) == i < n

\* Faulty variant: the iterator stops after the first page it handled.
NextPageNever(d, rc) == FALSE

\* Faulty variant: the loop goes on whatever the size of the page.
NextPageIgnoresCount(d, rc) == ~d

\* while (!done && receivedCount == this.PAGE_SIZE)
NextPage(d, rc) == ~d /\ rc = PAGE_SIZE

\* --------------------------------------------------- requestWithRetry
\* getToken up to its await: with an empty slot the credential exchange is
\* posted, otherwise the slot's value is returned at once.
getToken(p, auth, lg) ==
    IF SlotEmpty(auth)
    THEN /\ tokenPosts < MaxExchanges
         /\ tokenPosts' = tokenPosts + 1
         /\ exchange' = [exchange EXCEPT ![p] = tokenPosts + 1]
         /\ log' = [log EXCEPT ![p] = Append(lg, Ev("exchange", tokenPosts + 1))]
         /\ pc' = [pc EXCEPT ![p] = "tokenPost"]
    ELSE /\ UNCHANGED tokenPosts
         /\ exchange' = [exchange EXCEPT ![p] = 0]
         /\ log' = [log EXCEPT ![p] = lg]
         /\ pc' = [pc EXCEPT ![p] = "haveToken"]

\* Entry of requestWithRetry: let retryCounter = 0, then the first attempt.
requestWithRetry(p, auth) ==
    /\ retryCounter' = [retryCounter EXCEPT ![p] = 0]
    /\ sleepTime' = [sleepTime EXCEPT ![p] = 0]
    /\ result' = [result EXCEPT ![p] = NoResult]
    /\ getToken(p, auth, <<>>)

\* Faulty variant: an exhausted retry budget raises instead of resolving undefined.
LoopOrExitRaises(p, rc, auth, lg) ==
    IF rc < MAX_RETRIES
    THEN /\ getToken(p, auth, lg)
         /\ UNCHANGED result
    ELSE /\ pc' = [pc EXCEPT ![p] = "raised"]
         /\ result' = [result EXCEPT ![p] = [kind |-> "ProviderAPIError", body |-> NoResponse]]
         /\ log' = [log EXCEPT ![p] = lg]
         /\ UNCHANGED <<tokenPosts, exchange>>

\* The loop test after a retried failure: another attempt, or the function
\* ends without a return statement and resolves with undefined.
LoopOrExit(p, rc, auth, lg) ==
    IF LoopAgain(rc)
    THEN /\ getToken(p, auth, lg)
         /\ UNCHANGED result
    ELSE /\ pc' = [pc EXCEPT ![p] = "resolved"]
         /\ result' = [result EXCEPT ![p] = [kind |-> "undefined", body |-> NoResponse]]
         /\ log' = [log EXCEPT ![p] = lg]
         /\ UNCHANGED <<tokenPosts, exchange>>

\* The catch block of requestWithRetry, for the caught value err.
Catch(p, err) ==
    LET lg == Append(log[p], ErrEv(err)) IN
    /\ authFailSeen' = (authFailSeen \/ err.status \in {401, 403})
    /\ clean' = [clean EXCEPT ![p] = FALSE]
    /\ UNCHANGED <<iter, sent, tokensStored, singleton>>
    /\ IF IsRateLimited(err)
       THEN /\ sleepTime' = [sleepTime EXCEPT ![p] = SleepTimeFor(err)]
            /\ retryCounter' = [retryCounter EXCEPT ![p] = @ + 1]
            /\ log' = [log EXCEPT ![p] = Append(lg, Ev("sleep", SleepTimeFor(err)))]
            /\ pc' = [pc EXCEPT ![p] = "sleep"]
            /\ UNCHANGED <<Authorization, tokenPosts, result, exchange>>
       ELSE IF ShouldRefresh(err, retryCounter[p])
       THEN /\ Authorization' = Invalidate(Authorization)
            /\ retryCounter' = [retryCounter EXCEPT ![p] = @ + 1]
            /\ UNCHANGED sleepTime
            /\ LoopOrExit(p, retryCounter[p] + 1, Invalidate(Authorization),
                          Append(lg, Ev("clear", Invalidate(Authorization))))
       ELSE /\ pc' = [pc EXCEPT ![p] = Throw]
            /\ result' = [result EXCEPT ![p] = [kind |-> Thrown(err), body |-> NoResponse]]
            /\ log' = [log EXCEPT ![p] = lg]
            /\ UNCHANGED <<Authorization, tokenPosts, retryCounter, sleepTime, exchange>>

\* The awaited credential exchange ends: response.data.access_token is
\* stored in the slot, or the POST fails with one of errs (the catch block).
TokenAnswer(p, errs) ==
    /\ pc[p] = "tokenPost"
    /\ \/ /\ Authorization' = Store(Authorization, exchange[p])
          /\ log' = [log EXCEPT ![p] = Append(@, Ev("token", exchange[p]))]
          /\ pc' = [pc EXCEPT ![p] = "haveToken"]
          /\ tokensStored' = tokensStored + 1
          /\ UNCHANGED <<tokenPosts, authFailSeen, iter, hist, retryCounter,
                         sleepTime, result, exchange, singleton>>
       \/ \E err \in errs : Catch(p, err)

\* The token endpoint answers the credential exchange.
TokenResponse(p) == TokenAnswer(p, Errors)

\* request<T>(requestOptions): the headers object is this.headers itself, so
\* the request carries the slot's value of this instant.
SendRequest(p) ==
    /\ pc[p] = "haveToken"
    /\ log' = [log EXCEPT ![p] = Append(@, Ev("request", Authorization))]
    /\ sent' = [sent EXCEPT ![p] = Append(@, page[p])]
    /\ pc' = [pc EXCEPT ![p] = "request"]
    /\ UNCHANGED <<shared, iter, clean, retryCounter, sleepTime, result,
                   exchange, singleton>>

\* The bodies the provider can answer the pending request with.
Bodies(p) == IF kind[p] = "verify" THEN {0, 1} ELSE PageBodies(page[p])

\* The pending request is answered with one of bodies (return response) or
\* fails with one of errs (the catch block).
Respond(p, bodies, errs) ==
    /\ pc[p] = "request"
    /\ \/ \E b \in bodies :
            /\ result' = [result EXCEPT ![p] = [kind |-> "response", body |-> b]]
            /\ log' = [log EXCEPT ![p] = Append(@, Ev("ok", b))]
            /\ pc' = [pc EXCEPT ![p] = "resolved"]
            /\ UNCHANGED <<shared, iter, hist, retryCounter, sleepTime,
                           exchange, singleton>>
       \/ \E err \in errs : Catch(p, err)

\* The provider answers the request of a caller.
Response(p) == Respond(p, Bodies(p), Errors)

\* The setTimeout of the 429 branch fires.
SleepDone(p) ==
    /\ pc[p] = "sleep"
    /\ LoopOrExit(p, retryCounter[p], Authorization, log[p])
    /\ UNCHANGED <<Authorization, tokensStored, authFailSeen, iter, hist,
                   retryCounter, sleepTime, singleton>>

\* ---------------------------------------------------------- iterators
\* The frame of a finished requestWithRetry invocation is gone.
DropFrame(p) ==
    /\ retryCounter' = [retryCounter EXCEPT ![p] = 0]
    /\ sleepTime' = [sleepTime EXCEPT ![p] = 0]
    /\ result' = [result EXCEPT ![p] = NoResult]
    /\ log' = [log EXCEPT ![p] = <<>>]
    /\ exchange' = [exchange EXCEPT ![p] = 0]

\* The do-while test of the iterator for page pg just handled: request the
\* next page or return.
LoopTest(p, d, rc, pg) ==
    IF NextPage(d, rc)
    THEN /\ requested' = [requested EXCEPT ![p] = Append(@, pg)]
         /\ requestWithRetry(p, Authorization)
    ELSE /\ pc' = [pc EXCEPT ![p] = "returned"]
         /\ DropFrame(p)
         /\ UNCHANGED <<requested, tokenPosts>>

\* A caller starts requestIterator (k = "flat") or
\* requestIteratorWithNestedData (k = "nested"): page 1 is requested.
StartIterator(p, k) ==
    /\ pc[p] = "idle"
    /\ handle[p] # NoClient
    /\ kind' = [kind EXCEPT ![p] = k]
    /\ page' = [page EXCEPT ![p] = 1]
    /\ done' = [done EXCEPT ![p] = FALSE]
    /\ receivedCount' = [receivedCount EXCEPT ![p] = 0]
    /\ idx' = [idx EXCEPT ![p] = 0]
    /\ callbacks' = [callbacks EXCEPT ![p] = 0]
    /\ completed' = [completed EXCEPT ![p] = 0]
    /\ requested' = [requested EXCEPT ![p] = <<1>>]
    /\ received' = [received EXCEPT ![p] = <<>>]
    /\ sent' = [sent EXCEPT ![p] = <<>>]
    /\ clean' = [clean EXCEPT ![p] = TRUE]
    /\ requestWithRetry(p, Authorization)
    /\ UNCHANGED <<Authorization, tokensStored, authFailSeen, singleton>>

requestIterator(p) == StartIterator(p, "flat")

requestIteratorWithNestedData(p) == StartIterator(p, "nested")

\* The iterator is resumed with what requestWithRetry resolved to: it
\* invokes the iteratee on the first item, or leaves the loop.
IteratorResume(p) ==
    /\ pc[p] = "resolved"
    /\ kind[p] \in {"flat", "nested"}
    /\ received' = [received EXCEPT ![p] = Append(@, result[p].body)]
    /\ UNCHANGED <<Authorization, tokensStored, authFailSeen, kind, hist,
                   singleton>>
    /\ IF HasItems(kind[p], result[p].body)
       THEN /\ receivedCount' = [receivedCount EXCEPT ![p] = result[p].body]
            /\ UNCHANGED done
            /\ IF result[p].body > 0
               THEN /\ idx' = [idx EXCEPT ![p] = 1]
                    /\ callbacks' = [callbacks EXCEPT ![p] = @ + 1]
                    /\ pc' = [pc EXCEPT ![p] = "iteratee"]
                    /\ DropFrame(p)
                    /\ UNCHANGED <<page, requested, tokenPosts, completed>>
               ELSE /\ page' = [page EXCEPT ![p] = @ + 1]
                    /\ LoopTest(p, done[p], result[p].body, page[p] + 1)
                    /\ UNCHANGED <<idx, callbacks, completed>>
       ELSE /\ done' = [done EXCEPT ![p] = TRUE]
            /\ LoopTest(p, TRUE, receivedCount[p], page[p])
            /\ UNCHANGED <<page, receivedCount, idx, callbacks, completed>>

\* The awaited iteratee call completes: the next item of the page, or
\* page++ and the do-while test.
IterateeDone(p) ==
    /\ pc[p] = "iteratee"
    /\ UNCHANGED <<Authorization, tokensStored, authFailSeen, kind, done,
                   receivedCount, received, hist, singleton>>
    /\ completed' = [completed EXCEPT ![p] = @ + 1]
    /\ IF MoreItems(idx[p], receivedCount[p])
       THEN /\ idx' = [idx EXCEPT ![p] = @ + 1]
            /\ callbacks' = [callbacks EXCEPT ![p] = @ + 1]
            /\ UNCHANGED <<pc, page, requested, tokenPosts, engine>>
       ELSE /\ idx' = [idx EXCEPT ![p] = 0]
            /\ page' = [page EXCEPT ![p] = @ + 1]
            /\ LoopTest(p, done[p], receivedCount[p], page[p] + 1)
            /\ UNCHANGED callbacks

\* A caller starts verifyAuthentication: the probe request goes through
\* requestWithRetry.
verifyAuthentication(p) ==
    /\ pc[p] = "idle"
    /\ handle[p] # NoClient
    /\ kind' = [kind EXCEPT ![p] = "verify"]
    /\ sent' = [sent EXCEPT ![p] = <<>>]
    /\ clean' = [clean EXCEPT ![p] = TRUE]
    /\ requestWithRetry(p, Authorization)
    /\ UNCHANGED <<Authorization, tokensStored, authFailSeen, page, done,
                   receivedCount, idx, callbacks, completed, requested,
                   received, singleton>>

\* verifyAuthentication is resumed: if (response) return; and the end of the
\* function body both return normally.
VerifyResume(p) ==
    /\ pc[p] = "resolved"
    /\ kind[p] = "verify"
    /\ pc' = [pc EXCEPT ![p] = "returned"]
    /\ received' = [received EXCEPT ![p] = Append(@, result[p].body)]
    /\ DropFrame(p)
    /\ UNCHANGED <<shared, kind, page, done, receivedCount, idx, callbacks,
                   completed, requested, hist, singleton>>

\* The caller takes the outcome of its call (a normal return or the error
\* that propagated out of it) and is free to make the next call.
Finish(p) ==
    /\ pc[p] \in {"returned", "raised"}
    /\ pc' = [pc EXCEPT ![p] = "idle"]
    /\ kind' = [kind EXCEPT ![p] = "flat"]
    /\ page' = [page EXCEPT ![p] = 1]
    /\ done' = [done EXCEPT ![p] = FALSE]
    /\ receivedCount' = [receivedCount EXCEPT ![p] = 0]
    /\ idx' = [idx EXCEPT ![p] = 0]
    /\ callbacks' = [callbacks EXCEPT ![p] = 0]
    /\ completed' = [completed EXCEPT ![p] = 0]
    /\ requested' = [requested EXCEPT ![p] = <<>>]
    /\ received' = [received EXCEPT ![p] = <<>>]
    /\ sent' = [sent EXCEPT ![p] = <<>>]
    /\ clean' = [clean EXCEPT ![p] = TRUE]
    /\ DropFrame(p)
    /\ UNCHANGED <<shared, singleton>>

\* ------------------------------------------------------ the singleton
\* Faulty variant: the module variable is not consulted.
ClientMissingAlways(c) == TRUE

\* if (!client)
ClientMissing(c) == c = NoClient

\* getOrCreateAPIClient(config, logger), called by p between its calls of the
\* client: the first call constructs the APIClient, every call returns the
\* module variable.
getOrCreateAPIClient(p, cfg) ==
    /\ pc[p] = "idle"
    /\ IF ClientMissing(client)
       THEN /\ client' = [id |-> created + 1, config |-> cfg]
            /\ created' = created + 1
       ELSE UNCHANGED <<client, created>>
    /\ handle' = [handle EXCEPT ![p] = client']
    /\ firstConfig' = IF firstConfig = "none" THEN cfg ELSE firstConfig
    /\ UNCHANGED <<shared, pc, iter, hist, engine>>

\* ------------------------------------------------------ specification
\* Sequential use of the client: one caller, one call at a time, the client
\* obtained with config A.
Next ==
    \/ getOrCreateAPIClient(1, "A")
    \/ requestIterator(1)
    \/ requestIteratorWithNestedData(1)
    \/ verifyAuthentication(1)
    \/ TokenResponse(1)
    \/ SendRequest(1)
    \/ Response(1)
    \/ SleepDone(1)
    \/ IteratorResume(1)
    \/ IterateeDone(1)
    \/ VerifyResume(1)
    \/ Finish(1)

Spec == Init /\ [][Next]_vars

\* Sequential use in which every awaited operation eventually completes: the
\* token endpoint and the provider answer, the timer of a sleep fires, the
\* iteratee returns, and a resumed caller runs on.
FairSpec ==
    /\ Spec
    /\ WF_vars(TokenResponse(1))
    /\ WF_vars(SendRequest(1))
    /\ WF_vars(Response(1))
    /\ WF_vars(SleepDone(1))
    /\ WF_vars(IteratorResume(1))
    /\ WF_vars(IterateeDone(1))

\* Concurrent use of the client: both callers run calls at the same time,
\* their segments interleaving at the awaits.  The resource listed here is
\* small (one page of one item) and the only failure is a rejected token.
SmallBodies == {1}
ConcErrors == {HttpError(401, NoHeader)}

ConcTokenResponse(p) == TokenAnswer(p, ConcErrors)

ConcResponse(p) == Respond(p, SmallBodies, ConcErrors)

ConcNext ==
    \E p \in Procs :
        \/ \E cfg \in Configs : getOrCreateAPIClient(p, cfg)
        \/ requestIterator(p)
        \/ ConcTokenResponse(p)
        \/ SendRequest(p)
        \/ ConcResponse(p)
        \/ IteratorResume(p)
        \/ IterateeDone(p)
        \/ Finish(p)

SpecConc == Init /\ [][ConcNext]_vars

TypeOK ==
    /\ Authorization \in 0..MaxExchanges
    /\ tokenPosts \in 0..MaxExchanges
    /\ tokensStored \in 0..tokenPosts
    /\ authFailSeen \in BOOLEAN
    /\ \A p \in Procs :
         /\ pc[p] \in {"idle", "tokenPost", "haveToken", "request", "sleep",
                       "resolved", "iteratee", "returned", "raised"}
         /\ kind[p] \in Kinds
         /\ page[p] \in 1..(MaxPages + 1)
         /\ retryCounter[p] \in 0..MAX_RETRIES
         /\ idx[p] \in 0..PAGE_SIZE

\* ============================================================== claims
RECURSIVE SumSeq(_)
SumSeq(q) == IF q = <<>> THEN 0 ELSE SumSeq(Tail(q)) + Head(q)

Iterating(p) == pc[p] # "idle" /\ kind[p] \in {"flat", "nested"}

\* Every fetch of the call so far succeeded at its first attempt and gave a
\* page of items.
AllPagesFetched(p) ==
    /\ Iterating(p)
    /\ clean[p]
    /\ \A i \in 1..Len(received[p]) : received[p][i] >= 0

\* C1: in an iterator call whose every page fetch succeeds, the GETs sent are
\* page=1,2,...,k in that order, each page before the last one requested held
\* exactly 100 items (no page is requested after a short one), and when the
\* call has returned the last page was short and the iteratee has been
\* invoked once per returned item (the sum of the page sizes).
C1_PagesAndCallbacks ==
    \A p \in Procs :
        AllPagesFetched(p) =>
            /\ sent[p] = [i \in 1..Len(sent[p]) |-> i]
            /\ Len(received[p]) \in {Len(sent[p]), Len(sent[p]) - 1}
            /\ \A i \in 1..(Len(sent[p]) - 1) : received[p][i] = 100
            /\ callbacks[p] <= SumSeq(received[p])
            /\ pc[p] = "returned" =>
                 /\ Len(received[p]) = Len(sent[p])
                 /\ received[p][Len(received[p])] < 100
                 /\ callbacks[p] = SumSeq(received[p])

\* The pages [100, 100, 47] of the example: 3 requests, 247 callbacks.
C1_Witness ==
    /\ pc[1] = "returned"
    /\ AllPagesFetched(1)
    /\ received[1] = <<100, 100, 47>>
    /\ sent[1] = <<1, 2, 3>>
    /\ callbacks[1] = 247

\* The error responses of the current requestWithRetry invocation, in order.
IsError(ev) == ev.e = "error"
ErrorsOf(p) == SelectSeq(log[p], IsError)
Last(q) == q[Len(q)]

\* The invocation has received 429 on three attempts in a row.
Exhausted429(p) ==
    /\ Len(ErrorsOf(p)) = 3
    /\ \A i \in 1..3 : ErrorsOf(p)[i].v = 429

\* C2: after three consecutive 429 answers requestWithRetry makes no further
\* attempt and resolves with no response, without raising; an iterator that
\* is resumed with no response returns normally, sends no further request
\* and invokes the iteratee no further.
C2_ExhaustionEndsPagination ==
    /\ [](\A p \in Procs :
            /\ Exhausted429(p) =>
                 /\ Last(log[p]).e = "sleep"
                 /\ pc[p] \in {"sleep", "resolved"}
                 /\ pc[p] = "resolved" => result[p].kind = "undefined"
            /\ (Iterating(p) /\ received[p] # <<>>
                  /\ Last(received[p]) = NoResponse) => pc[p] = "returned")
    /\ [][\A p \in Procs :
            (pc[p] = "resolved" /\ result[p].kind = "undefined"
               /\ pc'[p] # "resolved") =>
                /\ pc'[p] = "returned"
                /\ sent'[p] = sent[p]
                /\ requested'[p] = requested[p]
                /\ callbacks'[p] = callbacks[p]]_vars

\* An iterator has returned after a second-page fetch that was answered 429
\* three times; the 100 items of page 1 were delivered.
C2_Witness ==
    /\ pc[1] = "returned"
    /\ kind[1] = "flat"
    /\ received[1] = <<100, NoResponse>>
    /\ sent[1] = <<1, 2, 2, 2>>
    /\ callbacks[1] = 100

\* C3: a 401 or 403 received when an earlier failure of the same invocation
\* has already been retried (retry counter non-zero) ends the invocation: it
\* is the last event, nothing is cleared or retried, and the invocation has
\* raised AuthenticationError for 401 and AuthorizationError for 403.
C3_SecondAuthFailureRaises ==
    \A p \in Procs : \A i \in 1..Len(log[p]) :
        (/\ log[p][i].e = "error"
         /\ log[p][i].v \in {401, 403}
         /\ \E j \in 1..(i - 1) : log[p][j].e = "error") =>
            /\ i = Len(log[p])
            /\ retryCounter[p] >= 1
            /\ pc[p] = "raised"
            /\ log[p][i].v = 401 => result[p].kind = "AuthenticationError"
            /\ log[p][i].v = 403 => result[p].kind = "AuthorizationError"

\* A 401 on the first attempt, a fresh token, and a 401 again on the second.
C3_Witness ==
    /\ pc[1] = "raised"
    /\ Len(ErrorsOf(1)) = 2
    /\ ErrorsOf(1)[1].v = 401
    /\ ErrorsOf(1)[2].v = 401
    /\ retryCounter[1] = 1
    /\ result[1].kind = "AuthenticationError"

\* The invocation has resolved with a response.
Succeeded(p) == pc[p] = "resolved" /\ result[p].kind = "response"

FirstError(p) == CHOOSE i \in 1..Len(log[p]) : log[p][i].e = "error"

\* C4: when the only failure of an invocation is a 401 or 403 and the next
\* attempt succeeds, what follows the failure is, in this order: the slot is
\* cleared, one credential exchange is posted and its token stored, the
\* request is sent with that token, and its response is returned; there is
\* no sleep and no second exchange.
C4_RefreshThenRetry ==
    \A p \in Procs :
        (/\ Succeeded(p)
         /\ Len(ErrorsOf(p)) = 1
         /\ ErrorsOf(p)[1].v \in {401, 403}) =>
            LET after == SubSeq(log[p], FirstError(p) + 1, Len(log[p])) IN
            /\ [i \in 1..Len(after) |-> after[i].e] =
                   <<"clear", "exchange", "token", "request", "ok">>
            /\ after[1].v = 0
            /\ after[3].v = after[2].v
            /\ after[4].v = after[3].v
            /\ result[p].body = after[5].v

\* The token of exchange 1 is rejected with 401, exchange 2 follows and the
\* retried request succeeds.
C4_Witness ==
    /\ Succeeded(1)
    /\ [i \in 1..Len(log[1]) |-> log[1][i].e] =
           <<"request", "error", "clear", "exchange", "token", "request", "ok">>
    /\ log[1][1].v = 1
    /\ log[1][2].v = 401
    /\ log[1][6].v = 2

\* The wait the claim gives for each retry-after header of the model.
ExpectedSleep(h) ==
    CASE h = NoHeader -> 5000
      [] h = Header(<<0>>) -> 0
      [] h = Header(<<1, 2>>) -> 12000

\* C5: every 429 is followed at once by a wait of retry-after * 1000 ms when
\* the response carries the header and of 5000 ms otherwise; no attempt is
\* made while the wait is pending; and an invocation whose attempt after the
\* wait succeeds has resolved with that response, not raised.
C5_RateLimitSleep ==
    \A p \in Procs :
        /\ \A i \in 1..Len(log[p]) :
             (log[p][i].e = "error" /\ log[p][i].v = 429) =>
                /\ i < Len(log[p])
                /\ log[p][i + 1].e = "sleep"
                /\ log[p][i + 1].v = ExpectedSleep(log[p][i].h)
        /\ pc[p] = "sleep" =>
             /\ Last(log[p]).e = "sleep"
             /\ sleepTime[p] = Last(log[p]).v
        /\ (log[p] # <<>> /\ Last(log[p]).e = "ok") =>
             /\ Succeeded(p)
             /\ result[p].body = Last(log[p]).v

\* One 429 with retry-after: 12, a wait of 12000 ms, then a success.
C5_Witness ==
    /\ Succeeded(1)
    /\ Len(ErrorsOf(1)) = 1
    /\ ErrorsOf(1)[1].v = 429
    /\ ErrorsOf(1)[1].h = Header(<<1, 2>>)
    /\ \E i \in 1..Len(log[1]) : log[1][i] = Ev("sleep", 12000)

\* C6 as stated: while no 401 or 403 has been observed, at most one
\* credential exchange is ever posted.
C6_AtMostOneExchange == ~authFailSeen => tokenPosts <= 1

\* C6, amended: while no 401 or 403 has been observed, at most one credential
\* exchange succeeds, and the token held is the one of the latest exchange
\* posted: once a token is stored no further exchange is posted, whatever
\* 429s and successes follow.  (A failed exchange stores nothing and is
\* repeated by the next attempt.)
C6_AtMostOneToken ==
    ~authFailSeen =>
        /\ tokensStored <= 1
        /\ Authorization # NoToken =>
             /\ tokensStored = 1
             /\ Authorization = tokenPosts

\* The fetch of page 2 was rate limited and then succeeded, with the token of
\* the only exchange made so far, which page 1 had triggered.
C6_Witness ==
    /\ ~authFailSeen
    /\ Succeeded(1)
    /\ requested[1] = <<1, 2>>
    /\ Len(ErrorsOf(1)) = 1
    /\ ErrorsOf(1)[1].v = 429
    /\ \A i \in 1..Len(log[1]) : log[1][i].e # "exchange"
    /\ tokenPosts = 1
    /\ Authorization = 1

\* C7 as stated: the first 401 or 403 of an invocation is absorbed (the slot
\* is cleared and the request retried), whatever preceded it.
C7_FirstAuthFailureAbsorbed ==
    \A p \in Procs : \A i \in 1..Len(log[p]) :
        (/\ log[p][i].e = "error"
         /\ log[p][i].v \in {401, 403}
         /\ \A j \in 1..(i - 1) :
                ~(log[p][j].e = "error" /\ log[p][j].v \in {401, 403})) =>
            /\ i < Len(log[p])
            /\ log[p][i + 1].e = "clear"

Count(p, e) == Len(SelectSeq(log[p], LAMBDA ev : ev.e = e))

\* C8: an invocation's retry counter counts the failures of that invocation
\* alone that were retried (so it starts at 0), and an invocation sends its
\* request at most 3 times, receives at most 3 failures and posts at most 3
\* exchanges, 429 retries and the auth refresh together.
C8_AtMostThreeAttempts ==
    \A p \in Procs :
        /\ retryCounter[p] =
               Len(ErrorsOf(p)) - (IF pc[p] = "raised" THEN 1 ELSE 0)
        /\ log[p] = <<>> => retryCounter[p] = 0
        /\ Count(p, "request") <= 3
        /\ Count(p, "exchange") <= 3
        /\ Len(ErrorsOf(p)) <= 3

\* Three attempts, one refreshed after a 401 and two after a 429, then no
\* fourth: the invocation has resolved with no response.
C8_Witness ==
    /\ pc[1] = "resolved"
    /\ result[1].kind = "undefined"
    /\ Count(1, "request") = 3
    /\ [i \in 1..3 |-> ErrorsOf(1)[i].v] = <<401, 429, 429>>
    /\ requested[1] = <<1, 2>>

\* C9: an HTTP error response other than a 429 and other than a 401/403
\* that is the invocation's first failure ends the invocation at once, at any
\* retry counter: it is the last event, the counter is left as it was, and
\* the error raised is AuthenticationError for 401, AuthorizationError for
\* 403 and ProviderAPIError for every other status.
C9_TypedErrorByStatus ==
    \A p \in Procs : \A i \in 1..Len(log[p]) :
        LET ev == log[p][i]
            earlier == Len(SelectSeq(SubSeq(log[p], 1, i - 1), IsError)) IN
        (/\ ev.e = "error"
         /\ ev.v \notin {Undefined, 429}
         /\ ~(ev.v \in {401, 403} /\ earlier = 0)) =>
            /\ i = Len(log[p])
            /\ pc[p] = "raised"
            /\ retryCounter[p] = earlier
            /\ result[p].kind =
                 (IF ev.v = 401 THEN "AuthenticationError"
                  ELSE IF ev.v = 403 THEN "AuthorizationError"
                  ELSE "ProviderAPIError")

\* A 403 raised as AuthorizationError at retry counter 2, after two 429s.
C9_Witness ==
    /\ pc[1] = "raised"
    /\ retryCounter[1] = 2
    /\ [i \in 1..Len(ErrorsOf(1)) |-> ErrorsOf(1)[i].v] = <<429, 429, 403>>
    /\ result[1].kind = "AuthorizationError"

\* C10 as stated: a failure that carries no HTTP response status ends the
\* invocation at once with the generic wrapped error (IntegrationError).
C10_NonHttpFailureIsGeneric ==
    \A p \in Procs : \A i \in 1..Len(log[p]) :
        (log[p][i].e = "error" /\ log[p][i].v = Undefined) =>
            /\ i = Len(log[p])
            /\ pc[p] = "raised"
            /\ result[p].kind = "IntegrationError"

\* The items of the pages received before the current one.
Front(q) == SubSeq(q, 1, Len(q) - 1)
RECURSIVE SumItems(_)
SumItems(q) ==
    IF q = <<>> THEN 0
    ELSE SumItems(Tail(q)) + (IF Head(q) > 0 THEN Head(q) ELSE 0)

\* C11: within an iterator call at most one iteratee invocation is pending;
\* the pending one is for item idx of the latest page, and it is the
\* (items of earlier pages + idx)-th invocation of the call, so the items are
\* taken in the server's order, none twice, none skipped; every step invokes
\* at most one item, the next of the same page after the pending invocation
\* completed or the first of a page just received; and while a page request
\* is being made or awaited every item of the pages before has completed.
C11_OneAtATimeInOrder ==
    /\ [](\A p \in Procs : Iterating(p) =>
            /\ callbacks[p] - completed[p] = (IF pc[p] = "iteratee" THEN 1 ELSE 0)
            /\ pc[p] = "iteratee" =>
                 /\ received[p] # <<>>
                 /\ idx[p] \in 1..Last(received[p])
                 /\ callbacks[p] = SumItems(Front(received[p])) + idx[p]
            /\ pc[p] \in {"tokenPost", "haveToken", "request", "sleep", "resolved"} =>
                 /\ completed[p] = SumItems(received[p])
                 /\ Len(received[p]) = page[p] - 1
            /\ pc[p] = "returned" => completed[p] = SumItems(received[p]))
    /\ [][\A p \in Procs :
            (pc'[p] # "idle" /\ pc[p] # "idle" /\ callbacks'[p] # callbacks[p]) =>
                /\ callbacks'[p] = callbacks[p] + 1
                /\ pc'[p] = "iteratee"
                /\ \/ /\ pc[p] = "iteratee"
                      /\ completed'[p] = callbacks[p]
                      /\ idx'[p] = idx[p] + 1
                      /\ page'[p] = page[p]
                   \/ /\ pc[p] = "resolved"
                      /\ idx'[p] = 1]_vars

\* Item 47 of page 3 is pending: it is invocation 247, 246 have completed.
C11_Witness ==
    /\ pc[1] = "iteratee"
    /\ received[1] = <<100, 100, 47>>
    /\ idx[1] = 47
    /\ callbacks[1] = 247
    /\ completed[1] = 246

\* C12: only one APIClient is ever constructed; it carries the config of
\* the first getOrCreateAPIClient call; and every caller that has been given
\* a client holds that very instance, so all of them use its token slot.
C12_Singleton ==
    /\ created <= 1
    /\ client.id = created
    /\ client.config = firstConfig
    /\ \A p \in Procs : handle[p] \in {NoClient, client}

\* Both callers hold the client built with config A, caller 1 has acquired a
\* token through it and is between two calls.
C12_Witness ==
    /\ handle[1] = [id |-> 1, config |-> "A"]
    /\ handle[2] = handle[1]
    /\ client = handle[1]
    /\ Authorization # NoToken
    /\ pc[1] = "idle"

\* C13 as stated: whenever the latest answer to an invocation is a 401 or a
\* 403, the slot has been cleared, so that no later attempt on the client
\* reuses the rejected token.
C13_AuthFailureClearsSlot ==
    \A p \in Procs : \A i \in 1..Len(log[p]) :
        (log[p][i].e = "error" /\ log[p][i].v \in {401, 403}) =>
            IF i = Len(log[p]) THEN Authorization = NoToken
            ELSE log[p][i + 1] = Ev("clear", NoToken)

\* C14: under sequential use every resource request is sent after a token
\* has been ensured: when the HTTP call is made, and for as long as it is
\* pending, the slot is non-empty and the request carries the slot's value;
\* the token check is passed with a non-empty slot; and the request that
\* follows an invalidation carries the token of the exchange made after it.
C14_RequestCarriesToken ==
    \A p \in Procs :
        /\ pc[p] = "haveToken" => Authorization # NoToken
        /\ pc[p] = "request" =>
             /\ Last(log[p]).e = "request"
             /\ Last(log[p]).v = Authorization
        /\ \A i \in 1..Len(log[p]) :
             /\ log[p][i].e = "request" => log[p][i].v # NoToken
             /\ (log[p][i].e = "clear" /\ i + 3 <= Len(log[p])
                   /\ log[p][i + 3].e = "request") =>
                    /\ log[p][i + 1].e = "exchange"
                    /\ log[p][i + 2].e = "token"
                    /\ log[p][i + 3].v = log[p][i + 2].v
                    /\ log[p][i + 3].v = log[p][i + 1].v

\* The request of page 1 was rejected with 403 while carrying token 1; its
\* retry is pending and carries token 2, the slot's value.
C14_Witness ==
    /\ pc[1] = "request"
    /\ kind[1] = "nested"
    /\ [i \in 1..Len(log[1]) |-> log[1][i].e] =
           <<"request", "error", "clear", "exchange", "token", "request">>
    /\ log[1][1].v = 1
    /\ log[1][2].v = 403
    /\ log[1][6].v = 2
    /\ Authorization = 2

\* Event i of the invocation is a failure of the credential exchange.
ExchangeFailed(p, i) ==
    /\ i > 1
    /\ log[p][i].e = "error"
    /\ log[p][i - 1].e = "exchange"

\* C15: a posted credential exchange is followed by its token or by its
\* failure, never by a second exchange of the same getToken call; while it is
\* pending and after it failed the slot is empty (sequential use); after the
\* failure the request of that attempt is not sent, and the failure is
\* handled as a failure of the request is: a 429 sleeps (the header's time or
\* 5000 ms) and retries, a 401/403 that is the first failure clears and
\* retries, anything else raises at once; failed exchanges and requests sent
\* are together at most 3 per invocation.
C15_ExchangeFailureHandledAlike ==
    \A p \in Procs :
        /\ pc[p] = "tokenPost" =>
             /\ Authorization = NoToken
             /\ Last(log[p]).e = "exchange"
        /\ Len(SelectSeq([i \in 1..Len(log[p]) |-> ExchangeFailed(p, i)],
                         LAMBDA b : b)) + Count(p, "request") <= MAX_RETRIES
        /\ \A i \in 1..Len(log[p]) :
             /\ (log[p][i].e = "exchange" /\ i < Len(log[p])) =>
                    log[p][i + 1].e \in {"token", "error"}
             /\ ExchangeFailed(p, i) =>
                  LET err == log[p][i]
                      earlier == Len(SelectSeq(SubSeq(log[p], 1, i - 1), IsError)) IN
                  /\ retryCounter[p] >= earlier
                  /\ IF err.v = 429
                     THEN /\ i < Len(log[p])
                          /\ log[p][i + 1] = Ev("sleep", ExpectedSleep(err.h))
                          /\ retryCounter[p] >= earlier + 1
                          /\ i + 1 = Len(log[p]) => Authorization = NoToken
                     ELSE IF err.v \in {401, 403} /\ earlier = 0
                     THEN /\ i < Len(log[p])
                          /\ log[p][i + 1] = Ev("clear", NoToken)
                          /\ retryCounter[p] >= 1
                     ELSE /\ i = Len(log[p])
                          /\ pc[p] = "raised"
                          /\ retryCounter[p] = earlier
                          /\ Authorization = NoToken

\* The exchange of the first attempt was answered 429, the invocation slept
\* and the second attempt exchanged again, sent the request and succeeded.
C15_Witness ==
    /\ Succeeded(1)
    /\ [i \in 1..Len(log[1]) |-> log[1][i].e] =
           <<"exchange", "error", "sleep", "exchange", "token", "request", "ok">>
    /\ log[1][2].v = 429
    /\ retryCounter[1] = 1
    /\ Authorization = log[1][4].v

\* The fatal errors requestWithRetry raises.
FatalErrors ==
    {"AuthenticationError", "AuthorizationError", "ProviderAPIError",
     "IntegrationError"}

\* C16: a fatal error of requestWithRetry is the outcome of the iterator
\* call that awaited it: the call has raised with that error while fetching
\* page N, the pages 1..N-1 have been received in full and every item of
\* them has been handed to the iteratee and stays counted, page N is the last
\* page requested, and from then on the call sends no request and invokes
\* the iteratee no more before the caller takes the error.
C16_FatalErrorPropagates ==
    /\ [](\A p \in Procs :
            /\ result[p].kind \in FatalErrors => pc[p] = "raised"
            /\ (Iterating(p) /\ pc[p] = "raised") =>
                 /\ result[p].kind \in FatalErrors
                 /\ Last(log[p]).e = "error"
                 /\ Len(received[p]) = page[p] - 1
                 /\ \A i \in 1..Len(received[p]) : received[p][i] = PAGE_SIZE
                 /\ callbacks[p] = PAGE_SIZE * (page[p] - 1)
                 /\ completed[p] = callbacks[p]
                 /\ requested[p] = [i \in 1..page[p] |-> i]
                 /\ \A i \in 1..Len(sent[p]) : sent[p][i] <= page[p])
    /\ [][\A p \in Procs :
            pc[p] = "raised" =>
                \/ pc'[p] = "idle"
                \/ /\ pc'[p] = "raised"
                   /\ sent'[p] = sent[p]
                   /\ requested'[p] = requested[p]
                   /\ callbacks'[p] = callbacks[p]
                   /\ received'[p] = received[p]]_vars

\* Page 3 was answered 500 after two full pages: the call has raised
\* ProviderAPIError with 200 items delivered.
C16_Witness ==
    /\ pc[1] = "raised"
    /\ kind[1] = "flat"
    /\ result[1].kind = "ProviderAPIError"
    /\ Last(log[1]).v = 500
    /\ received[1] = <<100, 100>>
    /\ page[1] = 3
    /\ callbacks[1] = 200
    /\ completed[1] = 200

\* Both callers hold the one client, so they share its token slot.
SameClient == handle[1] = client /\ handle[2] = client /\ client # NoClient

\* C17: with two invocations in progress on the same client nothing guards
\* the slot between an invocation's token check and its HTTP call.  A
\* request can go out with an empty Authorization, and it does so only in
\* this way: the sender had passed its own token check (the request is the
\* first event of its invocation, or follows the token it stored itself) and
\* a 401/403 handled by an invocation on the same client has cleared the
\* slot since; and a pending request differs from the slot's value only when
\* the slot was cleared or overwritten on the same client in the meantime.
C17_InvalidationRacesRequest ==
    \A p \in Procs :
        /\ (pc[p] = "haveToken" /\ Authorization = NoToken) =>
             /\ authFailSeen
             /\ SameClient
        /\ \A i \in 1..Len(log[p]) :
             (log[p][i].e = "request" /\ log[p][i].v = NoToken) =>
                /\ authFailSeen
                /\ SameClient
                /\ i = 1 \/ log[p][i - 1].e = "token"
        /\ (pc[p] = "request" /\ Last(log[p]).v # Authorization) =>
             /\ SameClient
             /\ authFailSeen \/ tokensStored >= 2

\* Caller 1's request was rejected with 401: it has cleared the slot and is
\* awaiting a new exchange.  Caller 2 had found the token in place before
\* that and has now sent its request with the emptied Authorization.
C17_Witness ==
    /\ SameClient
    /\ pc[1] = "tokenPost"
    /\ \E i \in 1..Len(log[1]) :
         /\ log[1][i].e = "error"
         /\ log[1][i].v = 401
         /\ log[1][i + 1] = Ev("clear", NoToken)
    /\ pc[2] = "request"
    /\ log[2] = <<Ev("request", NoToken)>>
    /\ Authorization = NoToken

\* C18: the credential exchanges of two invocations on one client are not
\* coordinated.  Both can be pending at once, each posted on finding the
\* slot empty, and they are then two distinct POSTs; an exchange that
\* completes stores its own token over whatever the slot holds, so the slot
\* holds one token, that of the exchange that completed last.
C18_NoSingleFlight ==
    /\ [](/\ (pc[1] = "tokenPost" /\ pc[2] = "tokenPost") =>
               /\ exchange[1] # exchange[2]
               /\ tokenPosts >= 2
               /\ SameClient
          /\ \A p \in Procs :
               pc[p] = "tokenPost" => exchange[p] \in 1..tokenPosts
          /\ Authorization \in 0..tokenPosts
          /\ tokensStored <= tokenPosts)
    /\ [][\A p \in Procs :
            (pc[p] = "tokenPost" /\ pc'[p] = "haveToken") =>
                /\ Authorization' = exchange[p]
                /\ Last(log'[p]) = Ev("token", exchange[p])
                /\ tokensStored' = tokensStored + 1]_vars

\* Both callers found the slot empty and posted an exchange, caller 1 first.
\* Exchange 2 completed first and exchange 1 after it: the slot holds token
\* 1, and no 401 or 403 was involved.
C18_Witness ==
    /\ SameClient
    /\ ~authFailSeen
    /\ tokenPosts = 2
    /\ tokensStored = 2
    /\ log[1] = <<Ev("exchange", 1), Ev("token", 1)>>
    /\ pc[1] = "haveToken"
    /\ SubSeq(log[2], 1, 2) = <<Ev("exchange", 2), Ev("token", 2)>>
    /\ Authorization = 1

\* C19 as stated: verifyAuthentication returns normally only when its probe
\* request obtained a successful response; when requestWithRetry resolved
\* with no response the call has raised.
C19_VerifyReturnsOnlyOnSuccess ==
    \A p \in Procs :
        (kind[p] = "verify" /\ pc[p] = "returned") =>
            /\ received[p] # <<>>
            /\ Last(received[p]) # NoResponse

\* The invocation waits to retry with an empty slot when the model's bound on
\* credential exchanges is used up: the model follows it no further.
AtExchangeBound(p) ==
    /\ pc[p] = "sleep"
    /\ SlotEmpty(Authorization)
    /\ tokenPosts = MaxExchanges

\* C20: when every awaited operation completes and the provider's listing
\* ends (some page is short, has no data, fails fatally or exhausts the
\* retries), every iterator call returns or raises; a call that has returned
\* did not stop after a full page; and the step that finishes a full page
\* requests the next one.
C20_IteratorTerminates ==
    /\ [](\A p \in Procs :
            (Iterating(p) /\ pc[p] = "returned") =>
                /\ received[p] # <<>>
                /\ Last(received[p]) # PAGE_SIZE)
    /\ [][\A p \in Procs :
            (/\ pc[p] = "iteratee"
             /\ receivedCount[p] = PAGE_SIZE
             /\ idx[p] = PAGE_SIZE
             /\ pc'[p] # "iteratee") =>
                /\ pc'[p] \in {"tokenPost", "haveToken"}
                /\ page'[p] = page[p] + 1
                /\ requested'[p] = Append(requested[p], page[p] + 1)]_vars
    /\ \A p \in Procs :
         Iterating(p) ~> (pc[p] \in {"returned", "raised"} \/ AtExchangeBound(p))

\* An iterator went on through every full page the provider had and returned
\* on the empty last one.
C20_Witness ==
    /\ pc[1] = "returned"
    /\ kind[1] = "nested"
    /\ Len(received[1]) = MaxPages
    /\ \A i \in 1..(MaxPages - 1) : received[1][i] = PAGE_SIZE
    /\ Last(received[1]) = 0
    /\ callbacks[1] = PAGE_SIZE * (MaxPages - 1)

====
